---- MODULE Spec2Model ----
(***************************************************************************)
(* Banking API BDD framework: the retrying HTTP client (BaseAPI /          *)
(* APIClient), the metrics bookkeeping of the step layer and the failure   *)
(* reporter of features/environment.py.                                    *)
(*                                                                         *)
(* Two specifications share the variables:                                 *)
(*   ClientSpec  one BaseAPI instance and the remote answering its calls;  *)
(*   RunSpec     one behave run: hooks, steps, context layers, reports.    *)
(*                                                                         *)
(* Time is counted in whole ticks.  An optional value (Python None, or a   *)
(* context attribute that does not exist) is a sequence of length 0 or 1.  *)
(***************************************************************************)
EXTENDS Integers, Sequences, FiniteSets, Bags, TLC

VARIABLES
    \* ---- BaseAPI instance (features/support/api/base_api.py)
    retry_count,         \* self.retry_count
    last_request,        \* self.last_request      (None or [method])
    last_response,       \* self.last_response     (None or [status_code])
    last_response_time,  \* self.last_response_time (None or ticks)
    call,                \* the call in progress inside session.request
    client,              \* self.base_url, self.timeout, self.auth_token and
                         \* self.session.headers of the client
    accounts,            \* the AccountsAPI instance an APIClient delegates to
    correlation_id,      \* context.correlation_id of support/environment.py
    \* ---- behave run (features/environment.py and features/steps)
    phase,               \* position of the runner
    run,                 \* whether environment.py is loaded; scenarios begun;
                         \* BASE_URL as the environment of the run has it
    context,             \* behave Context: stack of layers, innermost first
    scenario,            \* the behave Scenario object being run
    now,                 \* wall clock, in seconds
    disk,                \* logs/failures: the paths of the reports written, in
                         \* order; what the latest report says; the summary
    remote_responses,    \* responses the remote has delivered to steps
    \* ---- load-test steps (features/steps/performance_steps.py)
    batch,               \* the batch of a load-test step and its thread pool
    threads,             \* threads recording metrics, each inside update_metrics
    \* ---- steps of src/steps and the runner of src/tools
    auth,                \* context attributes the authentication steps keep
    assertion,           \* how the latest assert_status_code ended
    pool,                \* threads of the step that shares one client
    runner,              \* src/tools/run_parallel.py: its pool and results
    support              \* context.test_results and context.performance_metrics
                         \* of src/support/environment.py

vars == <<retry_count, last_request, last_response, last_response_time, call,
          client, accounts, correlation_id,
          phase, run, context, scenario, now, disk, remote_responses,
          batch, threads,
          auth, assertion, pool, runner, support>>

clientVars == <<retry_count, last_request, last_response, last_response_time, call,
                client, accounts, correlation_id>>
runVars == <<phase, run, context, scenario, now, disk, remote_responses>>
loadVars == <<batch, threads>>
stepVars == <<auth, assertion, pool, runner, support>>

None == <<>>
Some(x) == <<x>>
IsSome(o) == Len(o) = 1
Get(o) == o[1]

RECURSIVE Pow2(_)
Pow2(n) == IF n <= 0 THEN 1 ELSE 2 * Pow2(n - 1)

(***************************************************************************)
(* Bounds                                                                  *)
(***************************************************************************)
MaxRetryCount == 3      \* retry_count is configured in 0..MaxRetryCount
MaxCalls == 2           \* responses the remote delivers to the steps of one run
MaxScenarios == 2       \* scenarios of one run
MaxTime == 1            \* seconds the wall clock can advance during a run
MaxClientCalls == 2     \* calls made on one client
MaxBatch == 6           \* requests (or dataset records) of one load-test batch
MaxRecorders == 2       \* threads that record metrics at the same time

(***************************************************************************)
(* The remote                                                              *)
(***************************************************************************)
\* status codes the remote answers with
RemoteStatuses == {200, 404, 500, 503}
\* a connection that could not be opened (nothing was transmitted), and a
\* transmitted request whose response never arrived
Response(s) == [kind |-> "response", status |-> s]
ConnectError == [kind |-> "connect_error", status |-> 0]
ReadError == [kind |-> "read_error", status |-> 0]
TransportErrors == {ConnectError, ReadError}
RemoteOutcomes == {Response(s) : s \in RemoteStatuses} \cup TransportErrors

Methods == {"GET", "POST", "PUT", "DELETE", "PATCH", "HEAD", "OPTIONS"}

\* seconds one attempt takes on the wire
AttemptLatency == 1

(***************************************************************************)
(* BaseAPI._setup_retry_strategy: the urllib3 Retry mounted on the session *)
(***************************************************************************)
setup_retry_strategy_total_plus_one(rc) ==
    [total            |-> rc + 1,
     status_forcelist |-> {429, 500, 502, 503, 504},
     allowed_methods  |-> {"HEAD", "GET", "PUT", "DELETE", "OPTIONS", "TRACE"},
     backoff_factor   |-> 1]

setup_retry_strategy_all_methods(rc) ==
    [total            |-> rc,
     status_forcelist |-> {429, 500, 502, 503, 504},
     allowed_methods  |-> {"HEAD", "GET", "PUT", "DELETE", "OPTIONS", "TRACE",
                           "POST", "PATCH"},
     backoff_factor   |-> 1]

setup_retry_strategy(rc) ==
    [total            |-> rc,
     status_forcelist |-> {429, 500, 502, 503, 504},
     allowed_methods  |-> {"HEAD", "GET", "PUT", "DELETE", "OPTIONS", "TRACE"},
     backoff_factor   |-> 1]

\* Retry.is_retry: a response is retried when the method is allowed and the
\* status is in the force list
is_retry(retry, method, status) ==
    method \in retry.allowed_methods /\ status \in retry.status_forcelist

\* Retry.is_exhausted, evaluated on the decremented total
is_exhausted(total) == total < 0

\* Retry.get_backoff_time after n consecutive failed attempts (the cap of
\* 120 seconds is beyond the retry counts considered)
get_backoff_time(retry, n) ==
    IF n <= 1 THEN 0 ELSE retry.backoff_factor * Pow2(n - 1)

(***************************************************************************)
(* Headers.  A header set maps each header name to an optional value.      *)
(***************************************************************************)
HeaderNames ==
    {"Content-Type", "Accept", "Authorization", "User-Agent", "X-Correlation-Id"}
NoHeaders == [h \in HeaderNames |-> None]

\* dict.update: the entries of g replace or extend those of h
update(h, g) == [k \in HeaderNames |-> IF IsSome(g[k]) THEN g[k] ELSE h[k]]

\* f'Bearer {self.auth_token}'
Bearer(token) == <<"Bearer", token>>

\* the headers of a fresh requests.Session()
SessionDefaults ==
    [NoHeaders EXCEPT !["User-Agent"] = Some("python-requests"),
                      !["Accept"] = Some("*/*")]

\* BaseAPI._get_default_headers
get_default_headers(auth_token) ==
    [NoHeaders EXCEPT !["Content-Type"] = Some("application/json"),
                      !["Accept"] = Some("application/json"),
                      !["Authorization"] = Some(Bearer(auth_token)),
                      !["User-Agent"] = Some("Banking-API-BDD-Tests/1.0")]

\* the headers session.request puts on the wire: the headers of the request
\* merged over those of the session
merge_setting(request_headers, session_headers) ==
    update(session_headers, request_headers)

Tokens == {"tok123", "invalid-token-12345"}

\* the attributes the authentication steps keep on the context; none is set
\* when a scenario starts
NoAuth ==
    [original_auth_token |-> None, removed_auth_header |-> None,
     original_auth_header |-> None, original_headers |-> None]

\* no step has started threads on the client
IdlePool == [pc |-> "idle", workers |-> <<>>, results |-> EmptyBag]
\* run_parallel.py has not been started
IdleRunner ==
    [pc |-> "idle", processes |-> 0, tags |-> <<>>, futures |-> <<>>,
     results |-> <<>>, exit_code |-> 0]

\* src/support/environment.py, before_all: the counters of the run
TestResults0 ==
    [total_scenarios |-> 0, passed_scenarios |-> 0, failed_scenarios |-> 0,
     skipped_scenarios |-> 0]

StepInitValues ==
    /\ auth = NoAuth
    /\ assertion = None
    /\ pool = IdlePool
    /\ runner = IdleRunner
    /\ support = [test_results |-> TestResults0, performance_metrics |-> <<>>]
CorrelationIds == {"c1", "c2"}
\* headers a caller passes to a call
CallerHeaders == {NoHeaders, [NoHeaders EXCEPT !["Accept"] = Some("text/plain")]}

IdleCall ==
    [pc |-> "idle", id |-> 0, via |-> "client", method |-> "GET",
     headers |-> NoHeaders, total |-> 0, answers |-> <<>>,
     sent |-> 0, elapsed |-> 0, error |-> "none",
     before |-> [last_response |-> None, last_response_time |-> None]]

(***************************************************************************)
(* behave Context.  A layer maps each attribute to an optional value.      *)
(* The runner pushes a layer when a scenario begins and pops it after the  *)
(* after_scenario hook; an assignment context.x = v writes the innermost   *)
(* layer, a read finds the innermost layer that has the attribute.         *)
(***************************************************************************)
EmptyLayer ==
    [logger |-> None, test_metrics |-> None, scenario_metrics |-> None,
     response |-> None, last_error |-> None, failure_files |-> None,
     base_url |-> None, bulk_results |-> None, concurrent_results |-> None]

RECURSIVE FindLayer(_, _, _)
FindLayer(ctx, attr, i) ==
    IF i > Len(ctx) THEN 0
    ELSE IF IsSome(ctx[i][attr]) THEN i
    ELSE FindLayer(ctx, attr, i + 1)

hasattr(ctx, attr) == FindLayer(ctx, attr, 1) # 0
getattr(ctx, attr) == Get(ctx[FindLayer(ctx, attr, 1)][attr])
setattr(ctx, attr, v) == [ctx EXCEPT ![1] = [@ EXCEPT ![attr] = Some(v)]]
delattr(ctx, attr) == [ctx EXCEPT ![1] = [@ EXCEPT ![attr] = None]]
\* in-place mutation of the object an attribute refers to
mutate(ctx, attr, v) ==
    [ctx EXCEPT ![FindLayer(ctx, attr, 1)] = [@ EXCEPT ![attr] = Some(v)]]
push(ctx) == <<EmptyLayer>> \o ctx
pop(ctx) == Tail(ctx)

(***************************************************************************)
(* BaseAPI._make_request                                                   *)
(***************************************************************************)
\* Up to the dispatch, on the client itself (via = "client") or on the
\* AccountsAPI instance it delegates to (via = "accounts"): the headers are
\* built, the request is tracked, the timer is started and session.request
\* takes over with the mounted retry strategy.  "before" remembers the
\* response slot of the client as the call found it.
make_request(method, via, caller_headers) ==
    /\ call.pc # "in_flight"
    /\ call.id < MaxClientCalls
    /\ LET self == IF via = "client" THEN client ELSE accounts
           headers == update(get_default_headers(self.auth_token), caller_headers)
           request == [method |-> method, id |-> call.id + 1]
       IN  /\ IF via = "client"
              THEN last_request' = Some(request) /\ accounts' = accounts
              ELSE /\ accounts' = [accounts EXCEPT !.last_request = Some(request)]
                   /\ last_request' = last_request
           /\ call' = [pc |-> "in_flight", id |-> call.id + 1, via |-> via,
                       method |-> method,
                       headers |-> merge_setting(headers, self.headers),
                       total |-> setup_retry_strategy(retry_count).total,
                       answers |-> <<>>, sent |-> 0, elapsed |-> 0,
                       error |-> "none",
                       before |-> [last_response |-> last_response,
                                   last_response_time |-> last_response_time]]
    /\ UNCHANGED <<retry_count, last_response, last_response_time, client,
                   correlation_id>>

\* The response of the final attempt comes back from session.request: it is
\* tracked together with the time since the timer was started.  A delegated
\* call is tracked by the AccountsAPI instance and then copied to the client
\* (APIClient._sync_response_tracking).
make_request_return(status, answers, sent, elapsed) ==
    LET response == [status_code |-> status, request_id |-> call.id]
    IN  /\ IF call.via = "client"
           THEN /\ last_response' = Some(response)
                /\ last_response_time' = Some(elapsed)
                /\ UNCHANGED <<last_request, accounts>>
           ELSE /\ accounts' = [accounts EXCEPT
                                   !.last_response = Some(response),
                                   !.last_response_time = Some(elapsed)]
                /\ last_request' = accounts.last_request
                /\ last_response' = Some(response)
                /\ last_response_time' = Some(elapsed)
        /\ call' = [call EXCEPT !.pc = "returned", !.answers = answers,
                                !.sent = sent, !.elapsed = elapsed]
        /\ UNCHANGED <<retry_count, client, correlation_id>>

make_request_raise_clears_response(error, answers, sent, elapsed) ==
    /\ call' = [call EXCEPT !.pc = "raised", !.answers = answers,
                            !.sent = sent, !.elapsed = elapsed,
                            !.error = error]
    /\ last_response' = None
    /\ last_response_time' = None
    /\ UNCHANGED <<retry_count, last_request, client, accounts, correlation_id>>

\* session.request raised a RequestException: it is logged and re-raised.
make_request_raise(error, answers, sent, elapsed) ==
    /\ call' = [call EXCEPT !.pc = "raised", !.answers = answers,
                            !.sent = sent, !.elapsed = elapsed,
                            !.error = error]
    /\ UNCHANGED <<retry_count, last_request, last_response, last_response_time,
                   client, accounts, correlation_id>>

\* One attempt of session.request under the mounted Retry: the remote's
\* outcome o either ends the call or, when the policy allows, is followed by
\* a backoff sleep and another attempt.
session_request(o) ==
    /\ call.pc = "in_flight"
    /\ LET retry == setup_retry_strategy(retry_count)
           n == Len(call.answers) + 1
           answers == Append(call.answers, o)
           sent == call.sent + (IF o = ConnectError THEN 0 ELSE 1)
           elapsed == call.elapsed + AttemptLatency
           retried ==
               CASE o.kind = "connect_error" -> TRUE
                 [] o.kind = "read_error" -> call.method \in retry.allowed_methods
                 [] OTHER -> is_retry(retry, call.method, o.status)
           total == call.total - 1
       IN  IF ~retried
           THEN IF o.kind = "response"
                THEN make_request_return(o.status, answers, sent, elapsed)
                ELSE make_request_raise("ConnectionError", answers, sent, elapsed)
           ELSE IF is_exhausted(total)
                THEN make_request_raise(
                         IF o.kind = "response" THEN "RetryError"
                                                ELSE "ConnectionError",
                         answers, sent, elapsed)
                ELSE /\ call' = [call EXCEPT
                                    !.total = total, !.answers = answers,
                                    !.sent = sent,
                                    !.elapsed = elapsed + get_backoff_time(retry, n)]
                     /\ UNCHANGED <<retry_count, last_request, last_response,
                                    last_response_time, client, accounts,
                                    correlation_id>>

ClientRequest ==
    \E m \in Methods :
        make_request(m, "client", NoHeaders) /\ UNCHANGED <<runVars, loadVars, stepVars>>
ClientAttempt ==
    \E o \in RemoteOutcomes : session_request(o) /\ UNCHANGED <<runVars, loadVars, stepVars>>

(***************************************************************************)
(* The session of a client                                                 *)
(***************************************************************************)
set_correlation_id(self, id) ==
    [self EXCEPT !.headers =
        update(@, [NoHeaders EXCEPT !["X-Correlation-Id"] = Some(id)])]

reset_session_without_clear(self) ==
    [self EXCEPT !.headers = update(@, get_default_headers(self.auth_token))]

\* session.headers.clear(), then update with the default headers
reset_session(self) ==
    [self EXCEPT !.headers = update(NoHeaders, get_default_headers(self.auth_token))]

\* steps/auth_steps.py: 'I authenticate with bearer token "{token}"'.  The
\* token in use is remembered for restoration unless one is remembered already.
step_authenticate_with_token(token) ==
    /\ call.pc # "in_flight"
    /\ auth' = IF IsSome(auth.original_auth_token)
               THEN auth
               ELSE [auth EXCEPT !.original_auth_token = Some(client.auth_token)]
    /\ client' = reset_session([client EXCEPT !.auth_token = token])
    /\ UNCHANGED <<retry_count, last_request, last_response, last_response_time,
                   call, accounts, correlation_id>>

\* support/environment.py, before_scenario: the session is reset and the
\* correlation id of the scenario is set on the client
support_before_scenario(id) ==
    /\ call.pc # "in_flight"
    /\ correlation_id' = Some(id)
    /\ client' = set_correlation_id(reset_session(client), id)
    /\ UNCHANGED <<retry_count, last_request, last_response, last_response_time,
                   call, accounts>>

\* APIClient.get_account / create_account: delegated to the AccountsAPI
get_account == make_request("GET", "accounts", NoHeaders)
create_account == make_request("POST", "accounts", NoHeaders)

\* the calls the steps make on the client: get, post
SessionMethods == {"GET", "POST"}

SessionRequest ==
    \E m \in SessionMethods, h \in CallerHeaders :
        make_request(m, "client", h) /\ UNCHANGED <<runVars, loadVars, stepVars>>
FacadeRequest == (get_account \/ create_account) /\ UNCHANGED <<runVars, loadVars, stepVars>>
Authenticate ==
    \E token \in Tokens :
        /\ step_authenticate_with_token(token)
        /\ UNCHANGED <<runVars, loadVars, assertion, pool, runner, support>>
SupportBeforeScenario ==
    \E id \in CorrelationIds :
        support_before_scenario(id) /\ UNCHANGED <<runVars, loadVars, stepVars>>

(***************************************************************************)
(* Values held by the context                                              *)
(***************************************************************************)
\* status codes the remote answers a step with
StepStatuses == {200, 404}
\* characters kept of a response body in a failure report
BodyLimit == 2000
\* lengths of the response bodies the remote sends
BodyLengths == {BodyLimit, BodyLimit + 1}
ScenarioNames == {"s1", "s2"}
\* seconds a step measures for one HTTP call
ResponseTimes == {1, 2}

\* context.response: Python None, or a requests.Response
PyNone == [is_none |-> TRUE, status_code |-> 0, body |-> 0, readable |-> TRUE]
ResponseObjects ==
    [is_none : {FALSE}, status_code : StepStatuses, body : BodyLengths,
     readable : BOOLEAN]
\* a request of a step that ended without a response
StepErrors == {"timeout", "connection"}
\* what the remote gives to the request of a step
StepOutcomes ==
    {[error |-> "none", response |-> r] : r \in ResponseObjects}
    \cup {[error |-> e, response |-> PyNone] : e \in StepErrors}

TestMetrics0 ==
    [total_scenarios |-> 0, passed_scenarios |-> 0, failed_scenarios |-> 0,
     skipped_scenarios |-> 0, api_calls |-> 0, total_response_time |-> 0]
ScenarioMetrics0 == [api_calls |-> 0, total_response_time |-> 0, errors |-> <<>>]

\* truth value of a requests.Response used as a condition: Response.ok
response_truth(r) == ~r.is_none /\ r.status_code < 400

(***************************************************************************)
(* features/steps/common_steps.py                                          *)
(***************************************************************************)
\* the values BASE_URL can have in the environment of the run: not set, or
\* the URL of the API
BaseUrls == {None, Some("http://api")}

\* os.getenv(name, default) for BASE_URL
getenv_base_url(default) == IF IsSome(run.BASE_URL) THEN Get(run.BASE_URL) ELSE default

load_environment_config(ctx) ==
    setattr(ctx, "base_url", getenv_base_url("http://localhost:8080"))

setup_fallback_logger(ctx) ==
    IF hasattr(ctx, "logger") THEN ctx
    ELSE LET c1 == setattr(load_environment_config(ctx), "logger", TRUE)
             c2 == IF hasattr(c1, "test_metrics") THEN c1
                   ELSE setattr(c1, "test_metrics", TestMetrics0)
         IN  IF hasattr(c2, "scenario_metrics") THEN c2
             ELSE setattr(c2, "scenario_metrics", ScenarioMetrics0)

\* "if not hasattr(context, 'logger'): setup_fallback_logger(context)"
ensure_logger_available(ctx) ==
    IF hasattr(ctx, "logger") THEN ctx ELSE setup_fallback_logger(ctx)

add_call(m, response_time) ==
    [m EXCEPT !.api_calls = @ + 1, !.total_response_time = @ + response_time]

update_metrics_scenario_only(ctx, response_time) ==
    IF hasattr(ctx, "scenario_metrics")
    THEN mutate(ctx, "scenario_metrics",
                add_call(getattr(ctx, "scenario_metrics"), response_time))
    ELSE ctx

update_metrics(ctx, response_time) ==
    LET c1 == IF hasattr(ctx, "test_metrics")
              THEN mutate(ctx, "test_metrics",
                          add_call(getattr(ctx, "test_metrics"), response_time))
              ELSE ctx
    IN  IF hasattr(c1, "scenario_metrics")
        THEN mutate(c1, "scenario_metrics",
                    add_call(getattr(c1, "scenario_metrics"), response_time))
        ELSE c1

capture_error(ctx, msg) ==
    LET c1 == IF hasattr(ctx, "scenario_metrics")
              THEN mutate(ctx, "scenario_metrics",
                          [getattr(ctx, "scenario_metrics") EXCEPT
                              !.errors = Append(@, msg)])
              ELSE ctx
    IN  setattr(c1, "last_error", msg)

(***************************************************************************)
(* features/environment.py: the failure reporter                           *)
(***************************************************************************)
\* FAILED_<scenario name>_<timestamp to the second>.txt
failure_file(name, t) == [name |-> name, timestamp |-> t]

captured_body(r) == IF r.body > BodyLimit THEN BodyLimit + 3 ELSE r.body

\* The details gathered for the report of a failed scenario.
failure_details(ctx, sc) ==
    LET has_resp == hasattr(ctx, "response") /\ response_truth(getattr(ctx, "response"))
        r == getattr(ctx, "response")
    IN  [scenario  |-> sc.name,
         exception |-> sc.exception,
         last_error |->
             IF hasattr(ctx, "last_error") /\ getattr(ctx, "last_error") # ""
             THEN Some(getattr(ctx, "last_error")) ELSE None,
         api_response |->
             IF has_resp /\ r.readable
             THEN Some([status_code |-> r.status_code, body |-> captured_body(r)])
             ELSE None,
         api_response_error |-> has_resp /\ ~r.readable,
         metrics |->
             IF hasattr(ctx, "scenario_metrics")
             THEN Some(getattr(ctx, "scenario_metrics")) ELSE None]

\* fault: "none", or the operating-system error that strikes: "makedirs"
\* (logs/failures cannot be created) or "write" (the report cannot be
\* written).  Result: the context, the disk, and whether it raised.
capture_failure_details(ctx, dsk, sc, t, fault) ==
    IF fault = "makedirs"
    THEN [ctx |-> ctx, disk |-> dsk, raised |-> TRUE]
    ELSE IF fault = "write"
    THEN [ctx |-> ctx, disk |-> dsk, raised |-> FALSE]
    ELSE LET file == failure_file(sc.name, t)
             c1 == IF hasattr(ctx, "failure_files") THEN ctx
                   ELSE setattr(ctx, "failure_files", <<>>)
             c2 == mutate(c1, "failure_files",
                          Append(getattr(c1, "failure_files"), file))
         IN  [ctx |-> c2,
              disk |-> [dsk EXCEPT !.reports = Append(@, file),
                                   !.last_report = Some(failure_details(ctx, sc))],
              raised |-> FALSE]

create_failure_summary(ctx, dsk, fault) ==
    IF fault = "write" THEN dsk
    ELSE [dsk EXCEPT !.summary = Some(getattr(ctx, "failure_files"))]

before_all(configured) ==
    /\ phase = "start"
    /\ run.hooks
    /\ LET c1 == setattr(setattr(context, "logger", TRUE), "base_url",
                         IF configured THEN Get(run.BASE_URL) ELSE "")
       IN  IF ~configured
           THEN /\ context' = c1
                /\ phase' = "aborted"
           ELSE /\ context' = setattr(c1, "test_metrics", TestMetrics0)
                /\ phase' = "idle"
    /\ UNCHANGED <<run, scenario, now, disk, remote_responses>>

before_scenario_resets_run(ctx) ==
    LET c1 == setattr(ctx, "scenario_metrics", ScenarioMetrics0)
    IN  mutate(c1, "test_metrics",
               [getattr(c1, "test_metrics") EXCEPT !.total_scenarios = @ + 1,
                                                   !.api_calls = 0,
                                                   !.total_response_time = 0])

before_scenario(ctx) ==
    LET c1 == setattr(ctx, "scenario_metrics", ScenarioMetrics0)
    IN  mutate(c1, "test_metrics",
               [getattr(c1, "test_metrics") EXCEPT !.total_scenarios = @ + 1])

\* Result: the context, the disk, and whether the hook raised.
after_scenario(ctx, dsk, sc, status, t, fault) ==
    LET tm == getattr(ctx, "test_metrics")
        counted ==
            IF status = "passed"
            THEN [tm EXCEPT !.passed_scenarios = @ + 1]
            ELSE IF status = "failed"
            THEN [tm EXCEPT !.failed_scenarios = @ + 1]
            ELSE [tm EXCEPT !.skipped_scenarios = @ + 1]
        c1 == mutate(ctx, "test_metrics", counted)
        cap == IF status = "failed"
               THEN capture_failure_details(c1, dsk, sc, t, fault)
               ELSE [ctx |-> c1, disk |-> dsk, raised |-> FALSE]
        c2 == IF hasattr(cap.ctx, "scenario_metrics")
              THEN delattr(cap.ctx, "scenario_metrics") ELSE cap.ctx
        c3 == IF hasattr(c2, "last_error") THEN delattr(c2, "last_error") ELSE c2
    IN  IF cap.raised \/ ~hasattr(cap.ctx, "scenario_metrics")
        THEN [ctx |-> cap.ctx, disk |-> cap.disk, raised |-> TRUE]
        ELSE [ctx |-> c3, disk |-> cap.disk, raised |-> FALSE]

after_all(fault) ==
    /\ phase = "idle"
    /\ run.hooks
    /\ LET failed == getattr(context, "test_metrics").failed_scenarios
       IN  disk' = IF /\ failed > 0
                      /\ hasattr(context, "failure_files")
                      /\ getattr(context, "failure_files") # <<>>
                   THEN create_failure_summary(context, disk, fault)
                   ELSE disk
    /\ phase' = "ended"
    /\ UNCHANGED <<run, context, scenario, now, remote_responses>>

(***************************************************************************)
(* The behave runner                                                       *)
(***************************************************************************)
\* A scenario begins: the runner pushes the scenario layer and calls the
\* before_scenario hook when environment.py is loaded.
run_scenario_begin(name) ==
    /\ phase = "idle"
    /\ run.started < MaxScenarios
    /\ context' = IF run.hooks THEN before_scenario(push(context))
                               ELSE push(context)
    /\ scenario' = Some([name |-> name, status |-> "untested", exception |-> FALSE])
    /\ run' = [run EXCEPT !.started = @ + 1]
    /\ phase' = "running"
    /\ UNCHANGED <<now, disk, remote_responses>>

\* The status behave reports to after_scenario.
final_status(sc) == IF sc.status = "untested" THEN "passed" ELSE sc.status

\* A scenario ends: after_scenario is called, then the scenario layer is
\* popped.  An exception leaving the hook stops the run.
run_scenario_end(fault) ==
    /\ phase = "running"
    /\ IF run.hooks
       THEN LET res == after_scenario(context, disk, Get(scenario),
                                      final_status(Get(scenario)), now, fault)
            IN  /\ disk' = res.disk
                /\ IF res.raised
                   THEN /\ context' = res.ctx
                        /\ phase' = "aborted"
                        /\ scenario' = Some([Get(scenario) EXCEPT
                                                !.status = final_status(Get(scenario))])
                   ELSE /\ context' = pop(res.ctx)
                        /\ phase' = "idle"
                        /\ scenario' = None
       ELSE /\ context' = pop(context)
            /\ phase' = "idle"
            /\ scenario' = None
            /\ disk' = disk
    /\ UNCHANGED <<run, now, remote_responses>>

\* Without environment.py there is no after_all hook: the run just ends.
run_end_without_hooks ==
    /\ phase = "idle"
    /\ ~run.hooks
    /\ phase' = "ended"
    /\ UNCHANGED <<run, context, scenario, now, disk, remote_responses>>

\* behave marks the scenario skipped (or a step undefined) instead of
\* running its remaining steps.
behave_skip ==
    /\ phase = "running"
    /\ Get(scenario).status = "untested"
    /\ scenario' = Some([Get(scenario) EXCEPT !.status = "skipped"])
    /\ UNCHANGED <<phase, run, context, now, disk, remote_responses>>

\* the wall clock passes a second boundary
Tick ==
    /\ phase \in {"start", "idle", "running"}
    /\ now < MaxTime
    /\ now' = now + 1
    /\ UNCHANGED <<phase, run, context, scenario, disk, remote_responses>>

InStep == phase = "running" /\ Get(scenario).status = "untested"

\* the step raised: the scenario has failed and its remaining steps are skipped
step_raises == scenario' = Some([Get(scenario) EXCEPT !.status = "failed",
                                                       !.exception = TRUE])

(***************************************************************************)
(* features/steps                                                          *)
(***************************************************************************)
\* http_steps.py: 'I send a GET request to "{endpoint}"'
step_get_request(outcome, response_time) ==
    /\ InStep
    /\ LET c1 == ensure_logger_available(context)
       IN  IF outcome.error = "none"
           THEN /\ remote_responses < MaxCalls
                /\ context' = update_metrics(
                                  setattr(c1, "response", outcome.response),
                                  response_time)
                /\ remote_responses' = remote_responses + 1
                /\ scenario' = scenario
           ELSE /\ context' = setattr(setattr(c1, "response", PyNone),
                                      "last_error", outcome.error)
                /\ step_raises
                /\ remote_responses' = remote_responses
    /\ UNCHANGED <<phase, run, now, disk>>

\* number of rows of a bulk table, and of requests of a concurrent batch
MaxRows == 1
\* what one request of a batch gives: a status code, or 0 for an exception
RowOutcomes == {200, 0}
RowTables == UNION {[1..n -> RowOutcomes] : n \in 1..MaxRows}
Responses(rows) == Cardinality({i \in 1..Len(rows) : rows[i] # 0})

\* table_driven_steps.py: 'I perform bulk operations with the following data:'
\* rows[i] is what the remote gives to the request of row i.
step_perform_bulk_operations(rows) ==
    /\ InStep
    /\ remote_responses + Responses(rows) <= MaxCalls
    /\ IF hasattr(context, "bulk_results")
       THEN Len(getattr(context, "bulk_results")) + Len(rows) <= MaxRows
       ELSE TRUE
    /\ LET c1 == ensure_logger_available(context)
           c2 == IF hasattr(c1, "bulk_results") THEN c1
                 ELSE setattr(c1, "bulk_results", <<>>)
       IN  context' = mutate(c2, "bulk_results", getattr(c2, "bulk_results") \o rows)
    /\ remote_responses' = remote_responses + Responses(rows)
    /\ UNCHANGED <<phase, run, scenario, now, disk>>

\* performance_steps.py: 'I send {count:d} concurrent requests to "{endpoint}"'
\* for count >= 1; rows[i] is what the remote gives to request i.
step_concurrent_requests_to_endpoint(rows) ==
    /\ InStep
    /\ remote_responses + Responses(rows) <= MaxCalls
    /\ LET c1 == ensure_logger_available(context)
           ok == Cardinality({i \in 1..Len(rows) : rows[i] >= 200 /\ rows[i] < 300})
       IN  context' = setattr(c1, "concurrent_results",
                              [count |-> Len(rows), success_count |-> ok,
                               failure_count |-> Len(rows) - ok])
    /\ remote_responses' = remote_responses + Responses(rows)
    /\ UNCHANGED <<phase, run, scenario, now, disk>>

\* assertion_steps.py: 'the response status code should be {status_code:d}'
step_assert_status_code(status_code) ==
    /\ InStep
    /\ IF ~hasattr(context, "logger")
       THEN context' = context /\ step_raises
       ELSE IF ~hasattr(context, "response") \/ getattr(context, "response").is_none
       THEN context' = context /\ step_raises
       ELSE LET r == getattr(context, "response")
            IN  IF r.status_code = status_code
                THEN context' = context /\ scenario' = scenario
                ELSE IF ~r.readable
                THEN context' = context /\ step_raises
                ELSE context' = capture_error(context, "assertion") /\ step_raises
    /\ UNCHANGED <<phase, run, now, disk, remote_responses>>

\* environment_steps.py: 'I initialize test metrics'
step_initialize_metrics ==
    /\ InStep
    /\ LET c1 == ensure_logger_available(context)
           c2 == IF hasattr(c1, "test_metrics") THEN c1
                 ELSE setattr(c1, "test_metrics", TestMetrics0)
       IN  context' = IF hasattr(c2, "scenario_metrics") THEN c2
                      ELSE setattr(c2, "scenario_metrics", ScenarioMetrics0)
    /\ UNCHANGED <<phase, run, scenario, now, disk, remote_responses>>

\* environment_steps.py: 'I reset the test environment'
step_reset_environment ==
    /\ InStep
    /\ LET c1 == ensure_logger_available(context)
           c2 == IF hasattr(c1, "response") THEN setattr(c1, "response", PyNone) ELSE c1
           c3 == IF hasattr(c2, "last_error") THEN setattr(c2, "last_error", "") ELSE c2
       IN  context' = IF hasattr(c3, "scenario_metrics")
                      THEN setattr(c3, "scenario_metrics", ScenarioMetrics0)
                      ELSE c3
    /\ UNCHANGED <<phase, run, scenario, now, disk, remote_responses>>

(***************************************************************************)
(* features/steps/performance_steps.py: the load-test steps, step by step  *)
(*                                                                         *)
(* A batch runs on a concurrent.futures.ThreadPoolExecutor: submit queues  *)
(* a task and starts a thread while fewer than max_workers exist; a thread *)
(* takes the oldest queued task; leaving the with block waits for every    *)
(* task.  as_completed yields each future once, in no fixed order, so the  *)
(* list of results is a bag of entries.                                    *)
(***************************************************************************)
\* min(5, ...): the most worker threads of a batch
PoolLimit == 5
\* performance_data[:10]
DemoLimit == 10
\* seconds measured for one request of a batch
RequestTime == 1
\* seconds measured for a whole batch
BatchTimes == {0, 1}
\* status codes the remote answers a request of a batch with; 0 stands for
\* an exception raised by requests.get / requests.post
BatchOutcomes == {200, 304, 500, 0}

min(a, b) == IF a <= b THEN a ELSE b

\* Python's a / b
divide(a, b) ==
    IF b = 0 THEN [raised |-> TRUE, value |-> 0]
    ELSE [raised |-> FALSE, value |-> a \div b]

IdleBatch ==
    [kind |-> "none", pc |-> "idle", count |-> 0, max_workers |-> 0,
     submitted |-> 0, started |-> 0, num_threads |-> 0, running |-> {},
     finished |-> {}, stored |-> None, error |-> "none"]

max_workers_unclamped(limit, n) == n

\* max_workers = min(5, count)
max_workers(limit, n) == min(limit, n)

\* ThreadPoolExecutor(max_workers=...): a pool without workers is refused
ThreadPoolExecutor(kind, n, workers) ==
    IF workers <= 0
    THEN [IdleBatch EXCEPT !.kind = kind, !.pc = "raised", !.count = n,
                           !.error = "ValueError"]
    ELSE [IdleBatch EXCEPT !.kind = kind, !.pc = "running", !.count = n,
                           !.max_workers = workers]

\* 'I send {count:d} concurrent requests to "{endpoint}"', up to the pool
concurrent_begin(count) ==
    /\ batch.pc = "idle"
    /\ batch' = ThreadPoolExecutor("concurrent", count, max_workers(PoolLimit, count))
    /\ UNCHANGED threads

\* 'I create multiple resources using performance dataset', up to the pool,
\* for a dataset of the given number of records
create_begin(records) ==
    /\ batch.pc = "idle"
    /\ batch' = ThreadPoolExecutor("create", min(DemoLimit, records),
                                   max_workers(PoolLimit, records))
    /\ UNCHANGED threads

\* executor.submit for the next request
executor_submit ==
    /\ batch.pc = "running"
    /\ batch.submitted < batch.count
    /\ batch' = [batch EXCEPT
                    !.submitted = @ + 1,
                    !.num_threads = IF @ < batch.max_workers THEN @ + 1 ELSE @]
    /\ UNCHANGED threads

\* a worker thread that is free takes the oldest queued request and sends it
worker_take ==
    /\ batch.pc = "running"
    /\ batch.started < batch.submitted
    /\ Cardinality(batch.running) < batch.num_threads
    /\ batch' = [batch EXCEPT !.started = @ + 1,
                              !.running = @ \cup {batch.started + 1}]
    /\ UNCHANGED threads

\* make_request / create_resource comes back for one request in flight
worker_finish(request_id, outcome) ==
    /\ batch.pc = "running"
    /\ request_id \in batch.running
    /\ batch' = [batch EXCEPT
                    !.running = @ \ {request_id},
                    !.finished = @ \cup {[request_id |-> request_id,
                                          status_code |-> outcome]}]
    /\ UNCHANGED threads

\* the entry make_request returns for a request
make_request_result(f) ==
    [request_id |-> f.request_id, status_code |-> f.status_code,
     response_time |-> RequestTime,
     success |-> (200 <= f.status_code /\ f.status_code < 300),
     error |-> IF f.status_code = 0 THEN Some("exception") ELSE None]

\* the entry create_resource returns for a record that got a response
create_resource_result(f) ==
    [correlation_id |-> f.request_id, status_code |-> f.status_code,
     response_time |-> RequestTime]

\* context.concurrent_results
concurrent_results(finished, total_time) ==
    LET results == {make_request_result(f) : f \in finished}
        n == Cardinality(results)
    IN  [results |-> SetToBag(results),
         total_time |-> total_time,
         requests_per_second |-> IF total_time > 0 THEN n \div total_time ELSE 0,
         success_count |-> Cardinality({r \in results : r.success}),
         failure_count |-> Cardinality({r \in results : ~r.success}),
         average_response_time |-> divide(n * RequestTime, n)]

\* context.performance_results
performance_results(finished, total_time) ==
    LET results == {create_resource_result(f) : f \in finished}
        n == Cardinality(results)
    IN  [results |-> SetToBag(results),
         total_time |-> total_time,
         requests_per_second |-> IF total_time > 0 THEN n \div total_time ELSE 0,
         success_count |->
             Cardinality({r \in results : 200 <= r.status_code /\ r.status_code < 300}),
         failure_count |-> Cardinality({r \in results : r.status_code >= 400})]

\* The results are collected from as_completed and the with block is left,
\* which waits for every request; then the result of the batch is stored.
\* An exception create_resource re-raised comes out of future.result().
batch_join(total_time) ==
    /\ batch.pc = "running"
    /\ batch.submitted = batch.count
    /\ Cardinality(batch.finished) = batch.count
    /\ IF batch.kind = "concurrent"
       THEN LET stored == concurrent_results(batch.finished, total_time)
            IN  IF stored.average_response_time.raised
                THEN batch' = [batch EXCEPT !.pc = "raised",
                                            !.error = "ZeroDivisionError"]
                ELSE batch' = [batch EXCEPT !.pc = "done", !.stored = Some(stored)]
       ELSE IF \E f \in batch.finished : f.status_code = 0
            THEN batch' = [batch EXCEPT !.pc = "raised", !.error = "RequestException"]
            ELSE batch' = [batch EXCEPT
                              !.pc = "done",
                              !.stored = Some(performance_results(batch.finished,
                                                                  total_time))]
    /\ UNCHANGED threads

\* the next scenario step begins with a context that has no batch
batch_forget ==
    /\ batch.pc \in {"done", "raised"}
    /\ batch' = IdleBatch
    /\ UNCHANGED threads

(***************************************************************************)
(* update_metrics called from several threads.  A statement                *)
(* d['k'] += v reads d['k'], adds, and writes d['k']; another thread can   *)
(* run between the read and the write.                                     *)
(***************************************************************************)
\* the four augmented assignments of update_metrics, in order
Assignments ==
    <<[attr |-> "test_metrics", key |-> "api_calls"],
      [attr |-> "test_metrics", key |-> "total_response_time"],
      [attr |-> "scenario_metrics", key |-> "api_calls"],
      [attr |-> "scenario_metrics", key |-> "total_response_time"]>>

\* the amount an assignment adds
increment(key, response_time) == IF key = "api_calls" THEN 1 ELSE response_time

\* a thread calls update_metrics(context, response_time)
update_metrics_enter(response_time) ==
    /\ Len(threads) < MaxRecorders
    /\ threads' = Append(threads, [at |-> 1, pc |-> "read", value |-> 0,
                                   response_time |-> response_time])
    /\ UNCHANGED <<batch, context>>

\* thread i reads the entry its current assignment adds to
update_metrics_read(i) ==
    /\ threads[i].at <= Len(Assignments)
    /\ threads[i].pc = "read"
    /\ LET a == Assignments[threads[i].at]
       IN  threads' = [threads EXCEPT
                          ![i].pc = "write",
                          ![i].value = IF hasattr(context, a.attr)
                                       THEN getattr(context, a.attr)[a.key] ELSE 0]
    /\ UNCHANGED <<batch, context>>

\* thread i writes the sum back and goes on to its next assignment
update_metrics_write(i) ==
    /\ threads[i].at <= Len(Assignments)
    /\ threads[i].pc = "write"
    /\ LET a == Assignments[threads[i].at]
           sum == threads[i].value + increment(a.key, threads[i].response_time)
       IN  context' = IF hasattr(context, a.attr)
                      THEN mutate(context, a.attr,
                                  [getattr(context, a.attr) EXCEPT ![a.key] = sum])
                      ELSE context
    /\ threads' = [threads EXCEPT ![i].pc = "read", ![i].at = @ + 1]
    /\ UNCHANGED batch

RecordEnter ==
    \E t \in ResponseTimes :
        /\ update_metrics_enter(t)
        /\ UNCHANGED <<clientVars, phase, run, scenario, now, disk, remote_responses,
                       stepVars>>
RecordRead ==
    \E i \in 1..Len(threads) :
        /\ update_metrics_read(i)
        /\ UNCHANGED <<clientVars, phase, run, scenario, now, disk, remote_responses,
                       stepVars>>
RecordWrite ==
    \E i \in 1..Len(threads) :
        /\ update_metrics_write(i)
        /\ UNCHANGED <<clientVars, phase, run, scenario, now, disk, remote_responses,
                       stepVars>>

ConcurrentBegin ==
    \E count \in 0..MaxBatch : concurrent_begin(count) /\ UNCHANGED <<clientVars, runVars, stepVars>>
CreateBegin ==
    \E records \in 0..MaxBatch : create_begin(records) /\ UNCHANGED <<clientVars, runVars, stepVars>>
Submit == executor_submit /\ UNCHANGED <<clientVars, runVars, stepVars>>
WorkerTake == worker_take /\ UNCHANGED <<clientVars, runVars, stepVars>>
WorkerFinish ==
    \E id \in 1..MaxBatch, o \in BatchOutcomes :
        worker_finish(id, o) /\ UNCHANGED <<clientVars, runVars, stepVars>>
Join == \E t \in BatchTimes : batch_join(t) /\ UNCHANGED <<clientVars, runVars, stepVars>>
Forget == batch_forget /\ UNCHANGED <<clientVars, runVars, stepVars>>

\* BaseAPI.__init__ / APIClient.__init__: the settings, a fresh session, and
\* the AccountsAPI instance built from the same arguments
SessionInitValues ==
    /\ client = [base_url |-> "https://api.example.test", timeout |-> 30,
                 auth_token |-> "tok123", headers |-> SessionDefaults]
    /\ accounts = [auth_token |-> "tok123", headers |-> SessionDefaults,
                   last_request |-> None, last_response |-> None,
                   last_response_time |-> None]
    /\ correlation_id = None

LoadInitValues ==
    /\ batch = IdleBatch
    /\ threads = <<>>

Faults == {"none", "makedirs", "write"}

BeforeAll == before_all(IsSome(run.BASE_URL))
AfterAll == \E fault \in {"none", "write"} : after_all(fault)
ScenarioBegin == \E name \in ScenarioNames : run_scenario_begin(name)
ScenarioEnd == \E fault \in Faults : run_scenario_end(fault)
GetRequest ==
    \E outcome \in StepOutcomes, t \in ResponseTimes :
        step_get_request(outcome, t)
BulkOperations == \E rows \in RowTables : step_perform_bulk_operations(rows)
ConcurrentRequests == \E rows \in RowTables : step_concurrent_requests_to_endpoint(rows)
AssertStatusCode == \E s \in StepStatuses : step_assert_status_code(s)

RunNext ==
    \/ (BeforeAll /\ UNCHANGED <<clientVars, loadVars, stepVars>>)
    \/ (AfterAll /\ UNCHANGED <<clientVars, loadVars, stepVars>>)
    \/ (run_end_without_hooks /\ UNCHANGED <<clientVars, loadVars, stepVars>>)
    \/ (ScenarioBegin /\ UNCHANGED <<clientVars, loadVars, stepVars>>)
    \/ (ScenarioEnd /\ UNCHANGED <<clientVars, loadVars, stepVars>>)
    \/ (behave_skip /\ UNCHANGED <<clientVars, loadVars, stepVars>>)
    \/ (Tick /\ UNCHANGED <<clientVars, loadVars, stepVars>>)
    \/ (GetRequest /\ UNCHANGED <<clientVars, loadVars, stepVars>>)
    \/ (BulkOperations /\ UNCHANGED <<clientVars, loadVars, stepVars>>)
    \/ (ConcurrentRequests /\ UNCHANGED <<clientVars, loadVars, stepVars>>)
    \/ (AssertStatusCode /\ UNCHANGED <<clientVars, loadVars, stepVars>>)
    \/ (step_initialize_metrics /\ UNCHANGED <<clientVars, loadVars, stepVars>>)
    \/ (step_reset_environment /\ UNCHANGED <<clientVars, loadVars, stepVars>>)

RunInit ==
    /\ retry_count = 3
    /\ last_request = None
    /\ last_response = None
    /\ last_response_time = None
    /\ call = IdleCall
    /\ SessionInitValues
    /\ LoadInitValues
    /\ StepInitValues
    /\ phase \in {"start", "idle"}
    /\ run \in {[hooks |-> (phase = "start"), started |-> 0, BASE_URL |-> u] :
                   u \in BaseUrls}
    /\ context = <<EmptyLayer>>
    /\ scenario = None
    /\ now = 0
    /\ disk = [reports |-> <<>>, last_report |-> None, summary |-> None]
    /\ remote_responses = 0

RunSpec == RunInit /\ [][RunNext]_vars

RunInitValues ==
    /\ phase = "start"
    /\ run = [hooks |-> TRUE, started |-> 0, BASE_URL |-> Some("http://api")]
    /\ context = <<EmptyLayer>>
    /\ scenario = None
    /\ now = 0
    /\ disk = [reports |-> <<>>, last_report |-> None, summary |-> None]
    /\ remote_responses = 0

ClientInit ==
    /\ retry_count \in 0..MaxRetryCount
    /\ last_request = None
    /\ last_response = None
    /\ last_response_time = None
    /\ call = IdleCall
    /\ SessionInitValues
    /\ RunInitValues
    /\ LoadInitValues
    /\ StepInitValues

ClientNext == ClientRequest \/ ClientAttempt

ClientSpec == ClientInit /\ [][ClientNext]_vars

\* a client, its session and the steps that use them
SessionInit ==
    /\ retry_count \in {0, 1}
    /\ last_request = None
    /\ last_response = None
    /\ last_response_time = None
    /\ call = IdleCall
    /\ SessionInitValues
    /\ RunInitValues
    /\ LoadInitValues
    /\ StepInitValues

SessionNext ==
    \/ SessionRequest
    \/ FacadeRequest
    \/ ClientAttempt
    \/ Authenticate
    \/ SupportBeforeScenario

SessionSpec == SessionInit /\ [][SessionNext]_vars

\* the load-test steps of one scenario
LoadInit ==
    /\ retry_count = 3
    /\ last_request = None
    /\ last_response = None
    /\ last_response_time = None
    /\ call = IdleCall
    /\ SessionInitValues
    /\ RunInitValues
    /\ LoadInitValues
    /\ StepInitValues

LoadNext ==
    \/ ConcurrentBegin
    \/ CreateBegin
    \/ Submit
    \/ WorkerTake
    \/ WorkerFinish
    \/ Join
    \/ Forget

LoadSpec == LoadInit /\ [][LoadNext]_vars

\* threads recording metrics during a scenario: the context is the one
\* before_all and before_scenario have prepared
MetricsInit ==
    /\ retry_count = 3
    /\ last_request = None
    /\ last_response = None
    /\ last_response_time = None
    /\ call = IdleCall
    /\ SessionInitValues
    /\ LoadInitValues
    /\ StepInitValues
    /\ phase = "running"
    /\ run = [hooks |-> TRUE, started |-> 1, BASE_URL |-> Some("http://api")]
    /\ context = before_scenario(push(
                     setattr(setattr(<<EmptyLayer>>, "logger", TRUE),
                             "test_metrics", TestMetrics0)))
    /\ scenario \in {Some([name |-> n, status |-> "untested", exception |-> FALSE]) :
                        n \in ScenarioNames}
    /\ now = 0
    /\ disk = [reports |-> <<>>, last_report |-> None, summary |-> None]
    /\ remote_responses = 0

MetricsNext == RecordEnter \/ RecordRead \/ RecordWrite

MetricsSpec == MetricsInit /\ [][MetricsNext]_vars

(***************************************************************************)
(* Properties of the client                                                *)
(***************************************************************************)
NonIdempotentMethods == {"POST", "PATCH"}
IdempotentMethods == {"GET", "PUT", "DELETE", "HEAD", "OPTIONS"}
RetryableStatuses == {429, 500, 502, 503, 504}

Attempts == Len(call.answers)
IsResponse(o) == o.kind = "response"

C2_Exhausted503IsReturned ==
    (/\ call.method \in IdempotentMethods
     /\ call.pc \in {"returned", "raised"}
     /\ Attempts = 1 + retry_count
     /\ \A i \in 1..Attempts : call.answers[i] = Response(503))
    => (/\ call.pc = "returned"
        /\ IsSome(last_response)
        /\ Get(last_response).status_code = 503)

\* C3: an idempotent call makes at most 1 + retry_count attempts, goes on
\* only after retryable outcomes, returns the first response whose status is
\* not retryable, and times the whole call: with retry_count = 3 and answers
\* 503, 503, 503, 200 to a GET it returns the 200 and the elapsed time covers
\* the four attempts.
C3_BoundedRetryThenFirstFinal ==
    (call.pc # "idle" /\ call.method \in IdempotentMethods) =>
        /\ Attempts <= 1 + retry_count
        /\ \A i \in 1..Attempts :
              (IsResponse(call.answers[i])
                 /\ call.answers[i].status \notin RetryableStatuses)
              => (i = Attempts /\ call.pc = "returned")
        /\ call.pc = "returned" =>
              /\ IsResponse(call.answers[Attempts])
              /\ IsSome(last_response)
              /\ Get(last_response).status_code = call.answers[Attempts].status
              /\ IsSome(last_response_time)
              /\ Get(last_response_time) >= Attempts * AttemptLatency
        /\ (/\ call.method = "GET" /\ retry_count = 3 /\ call.pc # "in_flight"
            /\ call.answers = <<Response(503), Response(503), Response(503),
                                Response(200)>>)
           => (/\ call.pc = "returned"
               /\ Get(last_response).status_code = 200
               /\ Get(last_response_time) >= 4 * AttemptLatency)

C3_Witness ==
    /\ call.method = "GET"
    /\ retry_count = 3
    /\ call.pc = "returned"
    /\ call.answers = <<Response(503), Response(503), Response(503), Response(200)>>

Completed == call.pc \in {"returned", "raised"}

\* C17 (as claimed): once a call has completed, with a response or with an
\* error, last_request describes that call, and so does last_response when
\* there is one: the two slots never describe different calls.
C17_SlotsDescribeLastCompleted ==
    Completed =>
        /\ IsSome(last_request)
        /\ Get(last_request).id = call.id
        /\ IsSome(last_response) => Get(last_response).request_id = call.id

\* C18: a call that ends with a network-level error, at once for a method
\* that is not retried or after the last permitted attempt, is signalled to
\* the caller, records no response of its own, and leaves last_response and
\* last_response_time as the call found them.
C18_TransportErrorLeavesSlot ==
    (call.pc = "raised" /\ call.error = "ConnectionError") =>
        /\ call.answers[Attempts] \in TransportErrors
        /\ last_response = call.before.last_response
        /\ last_response_time = call.before.last_response_time
        /\ IsSome(last_response) => Get(last_response).request_id # call.id

C18_Witness ==
    /\ call.pc = "raised"
    /\ call.error = "ConnectionError"
    /\ call.method = "GET"
    /\ retry_count = 3
    /\ call.answers = <<ConnectError, ReadError, ConnectError, ReadError>>
    /\ call.id = 2
    /\ IsSome(last_response)
    /\ Get(last_response).request_id = 1
    /\ Get(last_response).status_code = 200

NewCall == call'.id = call.id + 1

C20_EveryRequestCarriesCorrelationId ==
    [][(NewCall /\ IsSome(correlation_id)) =>
          call'.headers["X-Correlation-Id"] = correlation_id]_vars

(***************************************************************************)
(* Properties of a run                                                     *)
(***************************************************************************)
TestMetrics(ctx) == getattr(ctx, "test_metrics")
ScenarioMetrics(ctx) == getattr(ctx, "scenario_metrics")
RunCalls(ctx) == IF hasattr(ctx, "test_metrics") THEN TestMetrics(ctx).api_calls ELSE 0
RunTime(ctx) ==
    IF hasattr(ctx, "test_metrics") THEN TestMetrics(ctx).total_response_time ELSE 0
ScenarioCalls(ctx) ==
    IF hasattr(ctx, "scenario_metrics") THEN ScenarioMetrics(ctx).api_calls ELSE 0
ScenarioTime(ctx) ==
    IF hasattr(ctx, "scenario_metrics")
    THEN ScenarioMetrics(ctx).total_response_time ELSE 0
RegisteredFiles(ctx) ==
    IF hasattr(ctx, "failure_files") THEN getattr(ctx, "failure_files") ELSE <<>>
BetweenScenarios == run.hooks /\ phase \in {"idle", "ended"}
FailedScenarioEnds ==
    /\ run.hooks
    /\ phase = "running"
    /\ phase' # "running"
    /\ final_status(Get(scenario)) = "failed"

\* C4 (as claimed): after any sequence of scenarios the failure records
\* registered in failure_files are as many as the scenarios that failed.
C4_RecordsEqualFailedScenarios ==
    BetweenScenarios =>
        Len(RegisteredFiles(context)) = TestMetrics(context).failed_scenarios

\* C5 (as claimed): capturing the details of a failed scenario never raises
\* to after_scenario, so the end of a scenario never stops the run.
C5_CaptureNeverRaises == [][FailedScenarioEnds => phase' = "idle"]_vars

\* C6 (as claimed): when the context of a failed scenario holds a readable
\* response, the report written for it carries that response's status code
\* and its body cut to the limit, whatever the status code.
C6_ReportCarriesLastResponse ==
    [][(/\ FailedScenarioEnds
        /\ Len(disk'.reports) = Len(disk.reports) + 1
        /\ hasattr(context, "response")
        /\ ~getattr(context, "response").is_none
        /\ getattr(context, "response").readable)
       => (/\ IsSome(disk'.last_report)
           /\ IsSome(Get(disk'.last_report).api_response)
           /\ LET r == getattr(context, "response")
                  a == Get(Get(disk'.last_report).api_response)
              IN  /\ a.status_code = r.status_code
                  /\ a.body <= BodyLimit + 3
                  /\ r.body <= BodyLimit => a.body = r.body)]_vars

\* C7 (as claimed): the summary exists only once the run has ended, and then
\* exactly when a failure record was produced; it lists the paths of all
\* records in the order they were written.
C7_SummaryAtRunEnd ==
    /\ phase # "ended" => disk.summary = None
    /\ (phase = "ended" /\ run.hooks) =>
          /\ IsSome(disk.summary) <=> disk.reports # <<>>
          /\ IsSome(disk.summary) => Get(disk.summary) = disk.reports

\* C8 (as claimed): whichever step receives responses from the remote, the
\* call counts of test_metrics and scenario_metrics both grow by the number
\* of responses, and both totals grow by the same time.
C8_EveryResponseCounted ==
    [][remote_responses' > remote_responses =>
         /\ RunCalls(context') = RunCalls(context) + (remote_responses' - remote_responses)
         /\ ScenarioCalls(context') =
                ScenarioCalls(context) + (remote_responses' - remote_responses)
         /\ RunTime(context') - RunTime(context) =
                ScenarioTime(context') - ScenarioTime(context)]_vars

\* C9: whenever both snapshots exist, the scenario's call count is at most
\* the run's call count.
C9_ScenarioCallsAtMostRunCalls ==
    (hasattr(context, "test_metrics") /\ hasattr(context, "scenario_metrics")) =>
        ScenarioMetrics(context).api_calls <= TestMetrics(context).api_calls

C9_Witness ==
    /\ run.hooks
    /\ phase = "running"
    /\ run.started = 2
    /\ hasattr(context, "scenario_metrics")
    /\ ScenarioMetrics(context).api_calls = 1
    /\ TestMetrics(context).api_calls = 2

\* C10: a reset of the scenario metrics, by before_scenario or by the
\* reset-environment step, leaves the scenario snapshot at zero calls, zero
\* time and no errors, and the run's call count and total time as they were.
C10_ResetScenarioOnly ==
    [][((run.hooks /\ ScenarioBegin) \/ step_reset_environment) =>
         /\ hasattr(context', "scenario_metrics")
         /\ ScenarioMetrics(context') = ScenarioMetrics0
         /\ RunCalls(context') = RunCalls(context)
         /\ RunTime(context') = RunTime(context)]_vars

C10_Witness ==
    /\ phase = "running"
    /\ Get(scenario).status = "untested"
    /\ hasattr(context, "scenario_metrics")
    /\ ScenarioMetrics(context) = ScenarioMetrics0
    /\ hasattr(context, "response")
    /\ getattr(context, "response").is_none
    /\ RunCalls(context) = 2
    /\ RunTime(context) = 3

(***************************************************************************)
(* Properties of a load-test batch                                         *)
(***************************************************************************)
BatchEnded == batch.pc \in {"done", "raised"}
Entries == BagToSet(Get(batch.stored).results)
EntryId(e) == IF batch.kind = "concurrent" THEN e.request_id ELSE e.correlation_id
FailedRequests == {f \in batch.finished : f.status_code = 0 \/ f.status_code >= 400}

\* C11 (as claimed): the average response time of a batch over zero requests
\* is computed, without an error, as 0.
C11_AverageOverZeroCalls ==
    (batch.kind = "concurrent" /\ batch.count = 0 /\ BatchEnded) =>
        /\ batch.pc = "done"
        /\ Get(batch.stored).average_response_time = [raised |-> FALSE, value |-> 0]

\* C12 (as claimed): a batch of n >= 1 requests ends with a result of
\* exactly n entries, one for each request, and success_count +
\* failure_count = n, whatever the remote answered.
C12_BatchReturnsEveryRequest ==
    (batch.count >= 1 /\ BatchEnded) =>
        /\ batch.pc = "done"
        /\ BagCardinality(Get(batch.stored).results) = batch.count
        /\ \A i \in 1..batch.count :
              Cardinality({e \in Entries : EntryId(e) = i}) = 1
        /\ \A e \in Entries : CopiesIn(e, Get(batch.stored).results) = 1
        /\ Get(batch.stored).success_count + Get(batch.stored).failure_count
               = batch.count

\* C13 (as claimed): a batch in which a request failed, by an exception or
\* an error status, still ends with a result, after all its requests have
\* finished, and the result has an entry showing the failure.
C13_FailedRequestDoesNotAbort ==
    (BatchEnded /\ FailedRequests # {}) =>
        /\ batch.pc = "done"
        /\ Cardinality(batch.finished) = batch.count
        /\ \A f \in FailedRequests :
              \E e \in Entries :
                  /\ EntryId(e) = f.request_id
                  /\ e.status_code = f.status_code
                  /\ f.status_code = 0 => IsSome(e.error)

\* C14 (as claimed): a batch of zero requests ends without an error, with
\* an empty result, throughput 0 and both counts 0.
C14_EmptyBatchCompletes ==
    (batch.kind # "none" /\ batch.count = 0 /\ BatchEnded) =>
        /\ batch.pc = "done"
        /\ Get(batch.stored).results = EmptyBag
        /\ Get(batch.stored).requests_per_second = 0
        /\ Get(batch.stored).success_count = 0
        /\ Get(batch.stored).failure_count = 0

\* C15: the pool of a batch of n requests has min(5, n) workers, and never
\* more requests than that are in flight.
C15_InFlightAtMostWorkers ==
    batch.pc \in {"running", "done"} =>
        /\ batch.max_workers = min(PoolLimit, batch.count)
        /\ batch.num_threads <= min(PoolLimit, batch.count)
        /\ Cardinality(batch.running) <= min(PoolLimit, batch.count)

C15_Witness ==
    /\ batch.kind = "concurrent"
    /\ batch.count = 6
    /\ batch.submitted = 6
    /\ batch.started = 5
    /\ Cardinality(batch.running) = 5

(***************************************************************************)
(* Properties of concurrent recording                                      *)
(***************************************************************************)
RECURSIVE SumTimes(_)
SumTimes(ts) == IF ts = <<>> THEN 0 ELSE Head(ts).response_time + SumTimes(Tail(ts))
AllRecorded == \A i \in 1..Len(threads) : threads[i].at > Len(Assignments)

\* C16 (as claimed): once all the threads that were recording have left
\* update_metrics, both call counts have grown by the number of threads and
\* both totals by the sum of their response times.
C16_NoLostIncrement ==
    AllRecorded =>
        /\ RunCalls(context) = Len(threads)
        /\ ScenarioCalls(context) = Len(threads)
        /\ RunTime(context) = SumTimes(threads)
        /\ ScenarioTime(context) = SumTimes(threads)

(***************************************************************************)
(* Properties of the delegating operations of APIClient                    *)
(***************************************************************************)
\* C21 (as claimed): after a banking operation of APIClient, whether the
\* endpoint object's call returned a response or raised, the client's
\* last_request, last_response and last_response_time equal those of the
\* endpoint object the operation delegated to.
C21_FacadeTrackingEqualsClient ==
    (Completed /\ call.via = "accounts") =>
        /\ last_request = accounts.last_request
        /\ last_response = accounts.last_response
        /\ last_response_time = accounts.last_response_time

(***************************************************************************)
(* src/steps: the steps that change, remove and restore the credentials of *)
(* context.api_client (src/support/clients/api_client.py)                  *)
(***************************************************************************)
\* a header value sent as it is, without the "Bearer" scheme in front
Bare(value) == <<"", value>>

InvalidToken == "invalid-token-12345"
ExpiredToken == "expired-banking-api-key-2023"
NoToken == ""
CorrectToken == "banking-api-key-2024"

\* auth_steps.py: the token is replaced and the session reset; "remember"
\* tells what the step stores in context.original_auth_token first
replace_token(token, remember) ==
    /\ call.pc # "in_flight"
    /\ auth' = IF remember
               THEN [auth EXCEPT !.original_auth_token = Some(client.auth_token)]
               ELSE auth
    /\ client' = reset_session([client EXCEPT !.auth_token = token])
    /\ UNCHANGED <<retry_count, last_request, last_response, last_response_time,
                   call, accounts, correlation_id>>

\* 'I have a valid bearer token': the default Authorization header has the
\* form 'Bearer <token>' for every token without a blank, so the checks pass
step_valid_bearer_token ==
    /\ call.pc # "in_flight"
    /\ auth' = [auth EXCEPT !.original_auth_token = Some(client.auth_token)]
    /\ UNCHANGED clientVars

step_invalid_bearer_token == replace_token(InvalidToken, TRUE)
step_expired_bearer_token == replace_token(ExpiredToken, TRUE)
step_no_auth_token == replace_token(NoToken, TRUE)
step_correct_api_key == replace_token(CorrectToken, FALSE)

\* 'I remove the Authorization header'
step_remove_auth_header ==
    /\ call.pc # "in_flight"
    /\ IF IsSome(client.headers["Authorization"])
       THEN /\ auth' = [auth EXCEPT !.removed_auth_header =
                            client.headers["Authorization"]]
            /\ client' = [client EXCEPT !.headers["Authorization"] = None]
       ELSE UNCHANGED <<auth, client>>
    /\ UNCHANGED <<retry_count, last_request, last_response, last_response_time,
                   call, accounts, correlation_id>>

\* 'I restore the Authorization header'
step_restore_auth_header ==
    /\ call.pc # "in_flight"
    /\ IF IsSome(auth.removed_auth_header)
       THEN /\ client' = [client EXCEPT !.headers["Authorization"] =
                              auth.removed_auth_header]
            /\ auth' = [auth EXCEPT !.removed_auth_header = None]
       ELSE UNCHANGED <<auth, client>>
    /\ UNCHANGED <<retry_count, last_request, last_response, last_response_time,
                   call, accounts, correlation_id>>

\* 'I send a request with malformed / empty Authorization header': the header
\* of the session (None when it has none) is remembered and replaced
replace_auth_header(value) ==
    /\ call.pc # "in_flight"
    /\ auth' = [auth EXCEPT !.original_auth_header =
                    Some(client.headers["Authorization"])]
    /\ client' = [client EXCEPT !.headers["Authorization"] = Some(value)]
    /\ UNCHANGED <<retry_count, last_request, last_response, last_response_time,
                   call, accounts, correlation_id>>

step_malformed_auth_header == replace_auth_header(Bare(client.auth_token))
step_empty_auth_header == replace_auth_header(Bare(""))

\* 'I restore the original authentication'.  A session header set to None
\* is one requests leaves out, as if it were absent.
step_restore_original_auth ==
    /\ call.pc # "in_flight"
    /\ LET c1 == IF IsSome(auth.original_auth_token)
                 THEN reset_session([client EXCEPT
                          !.auth_token = Get(auth.original_auth_token)])
                 ELSE client
           c2 == IF IsSome(auth.original_auth_header)
                 THEN [c1 EXCEPT !.headers["Authorization"] =
                          Get(auth.original_auth_header)]
                 ELSE c1
       IN  client' = c2
    /\ auth' = [auth EXCEPT !.original_auth_token = None,
                            !.original_auth_header = None]
    /\ UNCHANGED <<retry_count, last_request, last_response, last_response_time,
                   call, accounts, correlation_id>>

\* common_steps.py: 'I send a request without authentication'
step_request_without_auth ==
    /\ call.pc # "in_flight"
    /\ auth' = [auth EXCEPT !.original_headers = Some(client.headers)]
    /\ client' = [client EXCEPT !.headers["Authorization"] = None]
    /\ UNCHANGED <<retry_count, last_request, last_response, last_response_time,
                   call, accounts, correlation_id>>

\* common_steps.py: 'I restore authentication'
step_restore_auth ==
    /\ call.pc # "in_flight"
    /\ IF IsSome(auth.original_headers)
       THEN /\ client' = [client EXCEPT !.headers =
                              update(@, Get(auth.original_headers))]
            /\ auth' = [auth EXCEPT !.original_headers = None]
       ELSE UNCHANGED <<auth, client>>
    /\ UNCHANGED <<retry_count, last_request, last_response, last_response_time,
                   call, accounts, correlation_id>>

\* truth value of self.last_response used as a condition: None is false, and
\* a requests.Response is as true as its ok property
last_response_truth(r) == IsSome(r) /\ Get(r).status_code < 400

\* APIClient.assert_status_code, as 'the response status code should be
\* {status_code:d}' calls it; "raised" tells how the assertion ended
assert_status_code(expected_status) ==
    /\ call.pc # "in_flight"
    /\ assertion' = Some([expected |-> expected_status,
                          raised |-> IF ~last_response_truth(last_response)
                                     THEN "No response to check"
                                     ELSE IF Get(last_response).status_code # expected_status
                                     THEN "Expected status code"
                                     ELSE "none"])
    /\ UNCHANGED clientVars

\* context.api_client.get(endpoint), as 'I send a GET request to' calls it
api_client_get == make_request("GET", "client", NoHeaders)

StepFrame == UNCHANGED <<runVars, loadVars, assertion, pool, runner, support>>

ApiClientGet == api_client_get /\ UNCHANGED <<runVars, loadVars, stepVars>>
ValidBearerToken == step_valid_bearer_token /\ StepFrame
InvalidBearerToken == step_invalid_bearer_token /\ StepFrame
ExpiredBearerToken == step_expired_bearer_token /\ StepFrame
NoAuthToken == step_no_auth_token /\ StepFrame
CorrectApiKey == step_correct_api_key /\ StepFrame
RemoveAuthHeader == step_remove_auth_header /\ StepFrame
RestoreAuthHeader == step_restore_auth_header /\ StepFrame
MalformedAuthHeader == step_malformed_auth_header /\ StepFrame
EmptyAuthHeader == step_empty_auth_header /\ StepFrame
RestoreOriginalAuth == step_restore_original_auth /\ StepFrame
RequestWithoutAuth == step_request_without_auth /\ StepFrame
RestoreAuth == step_restore_auth /\ StepFrame
ClientAssertStatusCode ==
    \E s \in RemoteStatuses :
        /\ assert_status_code(s)
        /\ UNCHANGED <<runVars, loadVars, auth, pool, runner, support>>

\* a scenario of src/steps has begun: support/environment.py has built the
\* client from the configuration, reset its session and set the correlation
\* id of the scenario
AuthInit ==
    /\ retry_count = 0
    /\ last_request = None
    /\ last_response = None
    /\ last_response_time = None
    /\ call = IdleCall
    /\ client = set_correlation_id(
                    reset_session([base_url |-> "https://api.example.test",
                                   timeout |-> 30, auth_token |-> "tok123",
                                   headers |-> SessionDefaults]), "c1")
    /\ accounts = [auth_token |-> "tok123", headers |-> SessionDefaults,
                   last_request |-> None, last_response |-> None,
                   last_response_time |-> None]
    /\ correlation_id = Some("c1")
    /\ RunInitValues
    /\ LoadInitValues
    /\ StepInitValues

\* the steps that change the credentials and the one that restores them
AuthNext ==
    \/ ValidBearerToken
    \/ InvalidBearerToken
    \/ ExpiredBearerToken
    \/ NoAuthToken
    \/ CorrectApiKey
    \/ Authenticate
    \/ MalformedAuthHeader
    \/ EmptyAuthHeader
    \/ RestoreOriginalAuth
    \/ ApiClientGet
    \/ ClientAttempt

AuthSpec == AuthInit /\ [][AuthNext]_vars

\* the steps that take the Authorization header away and put it back, the
\* requests between them and the check of their status
HeaderNext ==
    \/ RemoveAuthHeader
    \/ RestoreAuthHeader
    \/ RequestWithoutAuth
    \/ RestoreAuth
    \/ ApiClientGet
    \/ ClientAttempt
    \/ ClientAssertStatusCode

HeaderSpec == AuthInit /\ [][HeaderNext]_vars

(***************************************************************************)
(* Properties of the credential steps and of assert_status_code            *)
(***************************************************************************)
\* the token the client was configured with
ConfiguredToken == "tok123"
\* a step has taken the Authorization header off the session and no step has
\* put it back
RemovalPending ==
    /\ client.headers["Authorization"] = None
    /\ IsSome(auth.original_headers) \/ IsSome(auth.removed_auth_header)

\* C25 (as claimed): a request that begins after 'I send a request without
\* authentication' or 'I remove the Authorization header' carries no
\* Authorization header, and a request that begins after the header was
\* restored carries the original one.
C25_RemovedHeaderIsNotSent ==
    [][NewCall =>
          call'.headers["Authorization"] =
              IF RemovalPending THEN None
              ELSE Some(Bearer(ConfiguredToken))]_vars

\* C27 (as claimed): assert_status_code(expected) raises exactly when no
\* response is recorded or the recorded status differs from expected; it
\* passes for expected = s whatever the recorded status s, 4xx and 5xx too.
C27_AssertRaisesIffDifferent ==
    [][ClientAssertStatusCode =>
          LET a == Get(assertion')
          IN  (a.raised # "none") <=>
                  \/ last_response = None
                  \/ Get(last_response).status_code # a.expected]_vars

\* C28 (as claimed): once 'I restore the original authentication' has run,
\* after whatever credential-changing steps, the token of the client and the
\* Authorization header of its session are those the scenario started with.
C28_RestoreReturnsOriginal ==
    [][RestoreOriginalAuth =>
          /\ client'.auth_token = ConfiguredToken
          /\ client'.headers["Authorization"] = Some(Bearer(ConfiguredToken))]_vars

(***************************************************************************)
(* src/steps/auth_steps.py: 'I send concurrent requests with the same      *)
(* token'.  PoolSize tasks run make_request on the one client of the       *)
(* context; every task is a thread of control of its own.                  *)
(***************************************************************************)
PoolSize == 5
PoolStatuses == {200, 401}

NoResult == [kind |-> "none", status_code |-> 0, response_time |-> 0]
QueuedWorker == [pc |-> "queued", status_code |-> 0, elapsed |-> 0,
                 result |-> NoResult]

\* the executor is created and the five tasks are submitted
step_concurrent_requests_same_token ==
    /\ pool.pc = "idle"
    /\ call.pc # "in_flight"
    /\ pool' = [pc |-> "running",
                workers |-> [i \in 1..PoolSize |-> QueuedWorker],
                results |-> EmptyBag]
    /\ UNCHANGED clientVars

\* task i enters APIClient._make_request: the request is tracked and the
\* timer started.  The tasks are taken from the queue in the order of their
\* submission, and all of them make the same request.
worker_make_request(i) ==
    /\ pool.pc = "running"
    /\ pool.workers[i].pc = "queued"
    /\ \A j \in 1..(i - 1) : pool.workers[j].pc # "queued"
    /\ last_request' = Some([method |-> "GET", id |-> 0])
    /\ pool' = [pool EXCEPT !.workers[i].pc = "in_flight"]
    /\ UNCHANGED <<retry_count, last_response, last_response_time, call, client,
                   accounts, correlation_id>>

\* session.request returns to task i after response_time: the response and
\* the time are tracked on the client, and the task holds its response
worker_response(i, status, response_time) ==
    /\ pool.pc = "running"
    /\ pool.workers[i].pc = "in_flight"
    /\ last_response' = Some([status_code |-> status, request_id |-> i])
    /\ last_response_time' = Some(response_time)
    /\ pool' = [pool EXCEPT !.workers[i] =
                    [@ EXCEPT !.pc = "returned", !.status_code = status,
                              !.elapsed = response_time]]
    /\ UNCHANGED <<retry_count, last_request, call, client, accounts,
                   correlation_id>>

\* session.request raises in task i: the task returns {'error': ...}
worker_raise(i) ==
    /\ pool.pc = "running"
    /\ pool.workers[i].pc = "in_flight"
    /\ pool' = [pool EXCEPT !.workers[i] =
                    [@ EXCEPT !.pc = "done",
                              !.result = [NoResult EXCEPT !.kind = "error"]]]
    /\ UNCHANGED clientVars

\* task i builds its result: the status code of the response it holds and
\* context.api_client.last_response_time as it is now
worker_result(i) ==
    /\ pool.pc = "running"
    /\ pool.workers[i].pc = "returned"
    /\ LET response == pool.workers[i]
       IN  pool' = [pool EXCEPT !.workers[i] =
                       [@ EXCEPT !.pc = "done",
                                 !.result = [kind |-> "ok",
                                             status_code |-> response.status_code,
                                             response_time |-> Get(last_response_time)]]]
    /\ UNCHANGED clientVars

RECURSIVE WorkerResults(_, _)
WorkerResults(workers, n) ==
    IF n = 0 THEN EmptyBag
    ELSE WorkerResults(workers, n - 1) (+) SetToBag({workers[n].result})

\* every future has completed: the results are stored on the context
same_token_join ==
    /\ pool.pc = "running"
    /\ \A i \in 1..PoolSize : pool.workers[i].pc = "done"
    /\ pool' = [pool EXCEPT !.pc = "done",
                            !.results = WorkerResults(pool.workers, PoolSize)]
    /\ UNCHANGED clientVars

PoolFrame == UNCHANGED <<runVars, loadVars, auth, assertion, runner, support>>

SameTokenBegin == step_concurrent_requests_same_token /\ PoolFrame
WorkerMakeRequest == \E i \in 1..PoolSize : worker_make_request(i) /\ PoolFrame
WorkerResponse ==
    \E i \in 1..PoolSize, s \in PoolStatuses, t \in ResponseTimes :
        worker_response(i, s, t) /\ PoolFrame
WorkerRaise == \E i \in 1..PoolSize : worker_raise(i) /\ PoolFrame
WorkerResult == \E i \in 1..PoolSize : worker_result(i) /\ PoolFrame
SameTokenJoin == same_token_join /\ PoolFrame

SameTokenNext ==
    \/ SameTokenBegin
    \/ WorkerMakeRequest
    \/ WorkerResponse
    \/ WorkerRaise
    \/ WorkerResult
    \/ SameTokenJoin

SameTokenSpec == AuthInit /\ [][SameTokenNext]_vars

\* C26 (as claimed): every result of the step that carries a status code
\* carries, as response_time, the elapsed time of the request whose status
\* code it carries, whatever the interleaving of the tasks.
C26_ResultPairsOwnStatusAndTime ==
    \A i \in 1..Len(pool.workers) :
        LET w == pool.workers[i]
        IN  (w.pc = "done" /\ w.result.kind = "ok") =>
                /\ w.result.status_code = w.status_code
                /\ w.result.response_time = w.elapsed

(***************************************************************************)
(* src/tools/run_parallel.py: one behave process for each tag group        *)
(***************************************************************************)
MaxTags == 3            \* tag groups given on the command line
MaxProcesses == 2       \* --processes
TagGroups == {"@smoke", "@regression"}

RECURSIVE SeqsUpTo(_, _)
SeqsUpTo(S, n) ==
    IF n = 0 THEN {<<>>}
    ELSE LET shorter == SeqsUpTo(S, n - 1)
         IN  shorter \cup {Append(q, x) : q \in shorter, x \in S}

\* how run_tag_group can end for one tag group: behave ran and exited with a
\* code; the output file or the behave process could not be started, which
\* run_tag_group catches; the worker process of the pool died, so that the
\* future raises
PartitionOutcomes ==
    {[kind |-> "exited", returncode |-> 0],
     [kind |-> "exited", returncode |-> 1],
     [kind |-> "start_failed", returncode |-> 0],
     [kind |-> "worker_died", returncode |-> 0]}

\* run_tag_group: the result it returns for an outcome it survives
run_tag_group(tag_group, outcome) ==
    [tag_group |-> tag_group,
     exit_code |-> IF outcome.kind = "exited" THEN outcome.returncode ELSE 0 - 1,
     error |-> outcome.kind # "exited"]

\* main, lines 95-105: future.result() is appended, and a future that raises
\* is given a result with exit code -1
future_result(f) ==
    IF f.outcome.kind = "worker_died"
    THEN [tag_group |-> f.tag, exit_code |-> 0 - 1, error |-> TRUE]
    ELSE run_tag_group(f.tag, f.outcome)

RECURSIVE failed_count(_)
failed_count(results) ==
    IF results = <<>> THEN 0
    ELSE (IF Head(results).exit_code = 0 THEN 0 ELSE 1) + failed_count(Tail(results))

sys_exit_always_zero(failed) == 0

\* sys.exit(0 if failed == 0 else 1)
sys_exit(failed) == IF failed = 0 THEN 0 ELSE 1

\* main up to the end of the submissions: the pool is created and one task
\* is submitted for each tag given
main_submit(processes, tags) ==
    /\ runner.pc = "idle"
    /\ runner' = [pc |-> "collecting", processes |-> processes, tags |-> tags,
                  futures |-> [i \in 1..Len(tags) |->
                                  [tag |-> tags[i], pc |-> "pending",
                                   outcome |-> [kind |-> "none", returncode |-> 0]]],
                  results |-> <<>>, exit_code |-> 0]

\* a free worker process takes the oldest pending task
partition_start(i) ==
    /\ runner.pc = "collecting"
    /\ runner.futures[i].pc = "pending"
    /\ \A j \in 1..(i - 1) : runner.futures[j].pc # "pending"
    /\ Cardinality({j \in 1..Len(runner.futures) :
                        runner.futures[j].pc = "running"}) < runner.processes
    /\ runner' = [runner EXCEPT !.futures[i].pc = "running"]

\* the task of tag group i ends
partition_end(i, outcome) ==
    /\ runner.pc = "collecting"
    /\ runner.futures[i].pc = "running"
    /\ runner' = [runner EXCEPT !.futures[i].pc = "completed",
                                !.futures[i].outcome = outcome]

\* as_completed yields a completed future: its result is appended
main_collect(i) ==
    /\ runner.pc = "collecting"
    /\ runner.futures[i].pc = "completed"
    /\ runner' = [runner EXCEPT !.futures[i].pc = "collected",
                                !.results = Append(@, future_result(runner.futures[i]))]

\* every future was collected: the summary is printed and the process exits
main_exit ==
    /\ runner.pc = "collecting"
    /\ \A i \in 1..Len(runner.futures) : runner.futures[i].pc = "collected"
    /\ runner' = [runner EXCEPT !.pc = "exited",
                                !.exit_code = sys_exit(failed_count(runner.results))]

RunnerFrame == UNCHANGED <<clientVars, runVars, loadVars, auth, assertion, pool, support>>

MainSubmit ==
    \E processes \in 1..MaxProcesses, tags \in SeqsUpTo(TagGroups, MaxTags) \ {<<>>} :
        main_submit(processes, tags) /\ RunnerFrame
PartitionStart == \E i \in 1..Len(runner.futures) : partition_start(i) /\ RunnerFrame
PartitionEnd ==
    \E i \in 1..Len(runner.futures), outcome \in PartitionOutcomes :
        partition_end(i, outcome) /\ RunnerFrame
MainCollect == \E i \in 1..Len(runner.futures) : main_collect(i) /\ RunnerFrame
MainExit == main_exit /\ RunnerFrame

RunnerNext ==
    \/ MainSubmit
    \/ PartitionStart
    \/ PartitionEnd
    \/ MainCollect
    \/ MainExit

RunnerSpec == AuthInit /\ [][RunnerNext]_vars

RECURSIVE CountTag(_, _)
CountTag(results, tag) ==
    IF results = <<>> THEN 0
    ELSE (IF Head(results).tag_group = tag THEN 1 ELSE 0) + CountTag(Tail(results), tag)
TagsGiven(tag) == Cardinality({i \in 1..Len(runner.tags) : runner.tags[i] = tag})

\* C22: when the runner exits it has collected exactly one result for each
\* tag group it was given, whether the partition ran, could not be started
\* or raised, and its exit code is 0 exactly when every partition ran and
\* exited with code 0.
C22_OneResultPerTagGroup ==
    runner.pc = "exited" =>
        /\ Len(runner.results) = Len(runner.tags)
        /\ \A tag \in TagGroups : CountTag(runner.results, tag) = TagsGiven(tag)
        /\ (runner.exit_code = 0) <=>
               \A i \in 1..Len(runner.futures) :
                   runner.futures[i].outcome = [kind |-> "exited", returncode |-> 0]
        /\ runner.exit_code \in {0, 1}

C22_Witness ==
    /\ runner.pc = "exited"
    /\ runner.processes = 2
    /\ Len(runner.tags) = 3
    /\ runner.futures[1].outcome.kind = "start_failed"
    /\ runner.futures[2].outcome.kind = "worker_died"
    /\ runner.futures[3].outcome = [kind |-> "exited", returncode |-> 0]
    /\ runner.exit_code = 1

(***************************************************************************)
(* Properties of the failure reports and of the scenario counters          *)
(***************************************************************************)
NoRepeat(files) ==
    \A i, j \in 1..Len(files) : i # j => files[i] # files[j]

\* C29 (as claimed): no report file is written twice in one run, so that a
\* failure record is never overwritten: the reports of any two failed
\* scenarios go to different paths, and failure_files holds no path twice.
C29_ReportsNeverOverwritten ==
    /\ NoRepeat(disk.reports)
    /\ NoRepeat(RegisteredFiles(context))

(***************************************************************************)
(* src/support/environment.py: the hooks of a run of src/steps             *)
(***************************************************************************)
\* the statuses behave can report for a scenario to after_scenario
ScenarioStatuses == {"passed", "failed", "skipped", "untested"}

support_after_scenario_forgets_total(status) ==
    /\ phase = "support"
    /\ call.pc # "in_flight"
    /\ support.test_results.total_scenarios < MaxScenarios
    /\ LET r == support.test_results
           counted == IF status = "passed"
                      THEN [r EXCEPT !.passed_scenarios = @ + 1]
                      ELSE IF status = "failed"
                      THEN [r EXCEPT !.failed_scenarios = @ + 1]
                      ELSE [r EXCEPT !.skipped_scenarios = @ + 1]
       IN  support' = [support EXCEPT !.test_results = counted]

\* after_scenario: the scenario is counted, and the time of the last response
\* of the client, when there is one, is added to the performance metrics
support_after_scenario(status) ==
    /\ phase = "support"
    /\ call.pc # "in_flight"
    /\ support.test_results.total_scenarios < MaxScenarios
    /\ LET r == [support.test_results EXCEPT !.total_scenarios = @ + 1]
           counted == IF status = "passed"
                      THEN [r EXCEPT !.passed_scenarios = @ + 1]
                      ELSE IF status = "failed"
                      THEN [r EXCEPT !.failed_scenarios = @ + 1]
                      ELSE [r EXCEPT !.skipped_scenarios = @ + 1]
           metric == [status |-> status,
                      response_time_ms |-> Get(last_response_time) * 1000]
       IN  support' =
               [test_results |-> counted,
                performance_metrics |->
                    IF IsSome(last_response_time) /\ Get(last_response_time) # 0
                    THEN Append(support.performance_metrics, metric)
                    ELSE support.performance_metrics]

SupportAfterScenario ==
    \E status \in ScenarioStatuses :
        /\ support_after_scenario(status)
        /\ UNCHANGED <<clientVars, runVars, loadVars, auth, assertion, pool, runner>>
SupportGet == phase = "support" /\ ApiClientGet
SupportAttempt == phase = "support" /\ ClientAttempt

\* support/config/config_manager.py: ConfigManager().base_url
ConfigManager_base_url == getenv_base_url("https://your-wiremock-app.railway.app")

\* api_client_fixture: the client built from a ConfigManager
api_client_fixture ==
    [base_url |-> ConfigManager_base_url, timeout |-> 30, auth_token |-> "tok123",
     headers |-> SessionDefaults]

\* a run of behave: with the hooks of features/environment.py or without
\* them, as in RunInit, or with the hooks of src/support/environment.py
BehaveInit ==
    /\ retry_count = 0
    /\ last_request = None
    /\ last_response = None
    /\ last_response_time = None
    /\ call = IdleCall
    /\ phase \in {"start", "idle", "support"}
    /\ run \in {[hooks |-> (phase = "start"), started |-> 0, BASE_URL |-> u] :
                   u \in BaseUrls}
    /\ client = api_client_fixture
    /\ accounts = [auth_token |-> "tok123", headers |-> SessionDefaults,
                   last_request |-> None, last_response |-> None,
                   last_response_time |-> None]
    /\ correlation_id = None
    /\ LoadInitValues
    /\ StepInitValues
    /\ context = <<EmptyLayer>>
    /\ scenario = None
    /\ now = 0
    /\ disk = [reports |-> <<>>, last_report |-> None, summary |-> None]
    /\ remote_responses = 0

BehaveNext ==
    \/ RunNext
    \/ SupportAfterScenario
    \/ SupportGet
    \/ SupportAttempt

BehaveSpec == BehaveInit /\ [][BehaveNext]_vars

Counted(r) == r.passed_scenarios + r.failed_scenarios + r.skipped_scenarios
\* the counter after_scenario is to increment for a status
CounterOf(status) ==
    IF status = "passed" THEN "passed_scenarios"
    ELSE IF status = "failed" THEN "failed_scenarios" ELSE "skipped_scenarios"
\* r2 is r1 with the counter of status, and only that one, incremented by one
CountedOnce(r1, r2, status) ==
    \A c \in {"passed_scenarios", "failed_scenarios", "skipped_scenarios"} :
        r2[c] = r1[c] + (IF c = CounterOf(status) THEN 1 ELSE 0)
ScenarioEnds == run.hooks /\ phase = "running" /\ phase' # "running"
ReportWritten == disk'.reports # disk.reports \/ disk'.last_report # disk.last_report

\* C24: a scenario leaves Running once, for Passed, Failed or Skipped, and
\* that transition increments exactly the counter of its status by one;
\* whenever no scenario is running total_scenarios equals the sum of the
\* three counters; a failure report is written only for a failed scenario.
\* This holds for the hooks of features/environment.py and for those of
\* src/support/environment.py.
C24_OneTerminalTransition ==
    /\ [](/\ (run.hooks /\ phase \in {"idle", "ended"}) =>
                 TestMetrics(context).total_scenarios = Counted(TestMetrics(context))
          /\ (run.hooks /\ phase = "running") =>
                 TestMetrics(context).total_scenarios = Counted(TestMetrics(context)) + 1
          /\ support.test_results.total_scenarios = Counted(support.test_results))
    /\ [][/\ ScenarioEnds =>
                /\ CountedOnce(TestMetrics(context), TestMetrics(context'),
                               final_status(Get(scenario)))
                /\ TestMetrics(context').total_scenarios =
                       TestMetrics(context).total_scenarios
                /\ scenario' = None \/ phase' = "aborted"
                /\ ReportWritten => final_status(Get(scenario)) = "failed"
          /\ (run.hooks /\ ~ScenarioEnds) =>
                /\ ~ReportWritten
                /\ (hasattr(context, "test_metrics") /\ hasattr(context', "test_metrics")) =>
                       Counted(TestMetrics(context')) = Counted(TestMetrics(context))
          /\ \A status \in ScenarioStatuses :
                support_after_scenario(status) =>
                    /\ CountedOnce(support.test_results, support'.test_results, status)
                    /\ support'.test_results.total_scenarios =
                           support.test_results.total_scenarios + 1]_vars

C24_Witness ==
    /\ run.hooks
    /\ phase = "idle"
    /\ TestMetrics(context).total_scenarios = 2
    /\ TestMetrics(context).failed_scenarios = 1
    /\ TestMetrics(context).skipped_scenarios = 1
    /\ Len(disk.reports) = 1

\* a step of features/steps sends requests to context.base_url
RequestStep == GetRequest \/ BulkOperations \/ ConcurrentRequests

\* C23 (as claimed): when no base URL is configured, an initialisation that
\* has run, that of before_all or the fallback one of a step, has failed and
\* stopped the run, and no request is sent, neither by a step to
\* context.base_url nor by a client built from a ConfigManager.
C23_NoCallWithoutBaseUrl ==
    /\ []((run.BASE_URL = None /\ hasattr(context, "base_url")) => phase = "aborted")
    /\ [][run.BASE_URL = None =>
              /\ ~RequestStep
              /\ ~NewCall
              /\ remote_responses' = remote_responses]_vars

(***************************************************************************)
(* http_steps.py: the request steps other than GET                         *)
(***************************************************************************)
\* The try block the request steps share: the response is assigned to
\* context.response and the metrics are updated.
request_succeeds(c1, outcome, response_time) ==
    /\ remote_responses < MaxCalls
    /\ context' = update_metrics(setattr(c1, "response", outcome.response),
                                 response_time)
    /\ remote_responses' = remote_responses + 1
    /\ scenario' = scenario

\* 'I send a POST request to "{endpoint}"': every except branch resets
\* context.response.
step_post_request(outcome, response_time) ==
    /\ InStep
    /\ LET c1 == ensure_logger_available(context)
       IN  IF outcome.error = "none"
           THEN request_succeeds(c1, outcome, response_time)
           ELSE /\ context' = setattr(setattr(c1, "response", PyNone),
                                      "last_error", outcome.error)
                /\ step_raises
                /\ remote_responses' = remote_responses
    /\ UNCHANGED <<phase, run, now, disk>>

\* 'I send a POST request to "{endpoint}" with data:': the Timeout and the
\* ConnectionError branches set context.last_error only.
step_post_request_with_data(outcome, response_time) ==
    /\ InStep
    /\ LET c1 == ensure_logger_available(context)
       IN  IF outcome.error = "none"
           THEN request_succeeds(c1, outcome, response_time)
           ELSE /\ context' = setattr(c1, "last_error", outcome.error)
                /\ step_raises
                /\ remote_responses' = remote_responses
    /\ UNCHANGED <<phase, run, now, disk>>

\* The except branches of the PUT and DELETE steps: Timeout sets
\* context.last_error only, every other exception (ConnectionError
\* included) also resets context.response.
timeout_keeps_response(c1, error) ==
    IF error = "timeout"
    THEN setattr(c1, "last_error", error)
    ELSE setattr(setattr(c1, "response", PyNone), "last_error", error)

\* 'I send a PUT request to "{endpoint}"'
step_put_request(outcome, response_time) ==
    /\ InStep
    /\ LET c1 == ensure_logger_available(context)
       IN  IF outcome.error = "none"
           THEN request_succeeds(c1, outcome, response_time)
           ELSE /\ context' = timeout_keeps_response(c1, outcome.error)
                /\ step_raises
                /\ remote_responses' = remote_responses
    /\ UNCHANGED <<phase, run, now, disk>>

\* 'I send a DELETE request to "{endpoint}"'
step_delete_request(outcome, response_time) ==
    /\ InStep
    /\ LET c1 == ensure_logger_available(context)
       IN  IF outcome.error = "none"
           THEN request_succeeds(c1, outcome, response_time)
           ELSE /\ context' = timeout_keeps_response(c1, outcome.error)
                /\ step_raises
                /\ remote_responses' = remote_responses
    /\ UNCHANGED <<phase, run, now, disk>>

\* 'I send a PATCH request to "{endpoint}"': the one except branch
\* (RequestException) logs and raises.
step_patch_request(outcome, response_time) ==
    /\ InStep
    /\ LET c1 == ensure_logger_available(context)
       IN  IF outcome.error = "none"
           THEN request_succeeds(c1, outcome, response_time)
           ELSE /\ context' = c1
                /\ step_raises
                /\ remote_responses' = remote_responses
    /\ UNCHANGED <<phase, run, now, disk>>

PostRequest ==
    \E outcome \in StepOutcomes, t \in ResponseTimes :
        step_post_request(outcome, t)
PostRequestWithData ==
    \E outcome \in StepOutcomes, t \in ResponseTimes :
        step_post_request_with_data(outcome, t)
PutRequest ==
    \E outcome \in StepOutcomes, t \in ResponseTimes :
        step_put_request(outcome, t)
DeleteRequest ==
    \E outcome \in StepOutcomes, t \in ResponseTimes :
        step_delete_request(outcome, t)
PatchRequest ==
    \E outcome \in StepOutcomes, t \in ResponseTimes :
        step_patch_request(outcome, t)

HttpNext ==
    \/ (BeforeAll /\ UNCHANGED <<clientVars, loadVars, stepVars>>)
    \/ (ScenarioBegin /\ UNCHANGED <<clientVars, loadVars, stepVars>>)
    \/ (ScenarioEnd /\ UNCHANGED <<clientVars, loadVars, stepVars>>)
    \/ (GetRequest /\ UNCHANGED <<clientVars, loadVars, stepVars>>)
    \/ (PostRequest /\ UNCHANGED <<clientVars, loadVars, stepVars>>)
    \/ (PostRequestWithData /\ UNCHANGED <<clientVars, loadVars, stepVars>>)
    \/ (PutRequest /\ UNCHANGED <<clientVars, loadVars, stepVars>>)
    \/ (DeleteRequest /\ UNCHANGED <<clientVars, loadVars, stepVars>>)
    \/ (PatchRequest /\ UNCHANGED <<clientVars, loadVars, stepVars>>)

HttpSpec == RunInit /\ [][HttpNext]_vars

\* a request step that ends with a timeout or a connection error
RequestStepFails ==
    \E outcome \in StepOutcomes, t \in ResponseTimes :
        /\ outcome.error \in StepErrors
        /\ \/ step_get_request(outcome, t)
           \/ step_post_request(outcome, t)
           \/ step_post_request_with_data(outcome, t)
           \/ step_put_request(outcome, t)
           \/ step_delete_request(outcome, t)
           \/ step_patch_request(outcome, t)

\* the context shows no response object
NoResponseVisible ==
    hasattr(context, "response") => getattr(context, "response").is_none

\* C30: after a request step (GET, POST, POST with data, PUT, DELETE,
\* PATCH) fails with a timeout or a connection error, context.response is
\* None: the response of an earlier call is not visible any more.
C30_FailedRequestLeavesNoResponse ==
    [][RequestStepFails => NoResponseVisible']_vars
====
